---- MODULE Spec2Model ----
(***************************************************************************)
(* Model of the autojimmy-data snapshot scripts:                           *)
(*   scripts/downloader.py  - Downloader, a retrying HTTP fetch primitive   *)
(*   scripts/map_update.py  - _downloadMapData, the snapshot builder        *)
(***************************************************************************)
EXTENDS Integers, Sequences, FiniteSets, TLC

(***************************************************************************)
(* Bounds of the model.                                                    *)
(***************************************************************************)
\* largest retry budget a caller of the Downloader passes (harness)
MaxRetryBudget == 3
\* number of download calls the harness makes on one Downloader
MaxCalls == 2
\* progress ticks of one file transfer
MaxTicks == 2

VARIABLES
    downloadCount,  \* Downloader._downloadCount
    call,           \* the running download call: its arguments, locals and position
    hist,           \* what the running call has done so far (attempts, sleeps, ...)
    calls,          \* number of download calls made on the Downloader so far
    completed,      \* number of those calls that completed their download
    files,          \* the file system: path -> content of every file that exists
    mpc,            \* position of _downloadMapData ("off": the Downloader is driven directly)
    milieuIdx,      \* position of "for milieu in _MilieuList"
    fetchedSectors, \* the current epoch's index as fetched (universeJson['Sectors'] before patching)
    universeJson,   \* universeJson['Sectors'] of the current epoch, patched
    nameMappings,   \* nameMappings of the current epoch
    sectorIdx,      \* position of "for sectorInfo in universeJson['Sectors']"
    fatal,          \* the exception that ended _downloadMapData ("none" while it runs)
    startTime,      \* startTime of _downloadMapData
    arg,            \* the payload last handed to the collision resolution, to
                    \* _removeTimestampFromSector, to the metadata checks or to
                    \* _encodeFileName
    ret             \* what that made of it

dlvars == <<downloadCount, call, hist, calls, completed, files>>
mapvars == <<mpc, milieuIdx, fetchedSectors, universeJson, nameMappings, sectorIdx,
             fatal, startTime, arg, ret>>
vars == <<dlvars, mapvars>>

(***************************************************************************)
(* scripts/downloader.py                                                   *)
(***************************************************************************)
_RetryHttpCodes == {408, 409, 425, 429, 500, 502, 503, 504, 509}

_initialRetryDelaySeconds == 5

\* HTTP statuses the server answers with that are not in _RetryHttpCodes
OtherHttpCodes == {400, 404}

\* statuses a failing request can come back with
ServerCodes ==
    IF mpc = "off" THEN _RetryHttpCodes \cup OtherHttpCodes ELSE {503, 404}

NoCall ==
    [op |-> "none", pc |-> "idle", retryCount |-> 0, retryDelay |-> 0,
     callback |-> FALSE, ex |-> 0, result |-> "none", error |-> "none",
     code |-> 0, filePath |-> [dir |-> "", name |-> <<>>]]

\* no call was made before
NoBefore == [retryDelay |-> 0, result |-> "none", error |-> "none"]

NoHist ==
    [budget |-> 0, attempts |-> 0, sleeps |-> <<>>, ticks |-> 0,
     countAtCall |-> 0, polledTrue |-> FALSE, lastCode |-> 0,
     onlyTransient |-> TRUE, transport |-> FALSE, before |-> NoBefore]

\* sizes of the body a download to `path` receives: the server may answer the
\* first file request of a run, and a direct caller's request, with an empty body
BodySizes(path) ==
    IF path.name \in {<<"sophonts.json">>, <<"out">>} THEN {0, 1} ELSE {1}

\* content of a file written by urlretrieve
Downloaded(size) == [kind |-> "download", size |-> size, data |-> <<>>]

\* the file system with `content` written to `path`
WriteFile(fs, path, content) ==
    [q \in DOMAIN fs \cup {path} |-> IF q = path THEN content ELSE fs[q]]

\* the call has ended: it returned to or raised into its caller
CallOver == call.pc \in {"returned", "raised"}

\* the retry delay and the outcome the call before this one ended with, kept for
\* a direct caller of the Downloader
Before ==
    IF mpc = "off"
    THEN [retryDelay |-> call.retryDelay, result |-> call.result,
          error |-> call.error]
    ELSE NoBefore

\* entry of downloadToFile / downloadToBuffer up to the first loop iteration
BeginCallKeepsDelay(op, filePath, retryCount, callback) ==
    /\ call' = [op |-> op, pc |-> "try", retryCount |-> retryCount,
                retryDelay |-> IF call.pc = "idle" THEN _initialRetryDelaySeconds
                               ELSE call.retryDelay,
                callback |-> callback, ex |-> 0,
                result |-> "none", error |-> "none", code |-> 0,
                filePath |-> filePath]
    /\ hist' = [NoHist EXCEPT !.budget = retryCount,
                              !.countAtCall = downloadCount,
                              !.before = Before]
    /\ calls' = calls + 1
BeginCall(op, filePath, retryCount, callback) ==
    /\ call' = [op |-> op, pc |-> "try", retryCount |-> retryCount,
                retryDelay |-> _initialRetryDelaySeconds,
                callback |-> callback, ex |-> 0,
                result |-> "none", error |-> "none", code |-> 0,
                filePath |-> filePath]
    /\ hist' = [NoHist EXCEPT !.budget = retryCount,
                              !.countAtCall = downloadCount,
                              !.before = Before]
    /\ calls' = calls + 1

\* "retryDelay *= 2"
DoubleDelayPlusOne(d) == d + 1
DoubleDelay(d) == d * 2

\* "if ex.code in Downloader._RetryHttpCodes: if retryCount > 0:"
IsRetryingOnceMore(code, retryCount) ==
    /\ code \in _RetryHttpCodes
    /\ retryCount >= 0
IsRetryingAnyCode(code, retryCount) ==
    retryCount > 0
IsRetrying(code, retryCount) ==
    /\ code \in _RetryHttpCodes
    /\ retryCount > 0

\* urlretrieve(...) / urlopen(...) is called and the request fails with an HTTPError
TryHttpError ==
    /\ call.pc = "try"
    /\ \E code \in ServerCodes :
        /\ call' = [call EXCEPT !.pc = "except", !.ex = code]
        /\ hist' = [hist EXCEPT !.attempts = @ + 1, !.lastCode = code,
                                !.onlyTransient = @ /\ code \in _RetryHttpCodes]
    /\ UNCHANGED <<downloadCount, calls, completed, files, mapvars>>

\* the request fails with an error that is not an HTTPError (URLError, OSError):
\* no except clause matches, the error leaves the call
TryTransportErrorCaught ==
    /\ call.pc = "try"
    /\ call' = [call EXCEPT !.pc = "except", !.ex = 503]
    /\ hist' = [hist EXCEPT !.attempts = @ + 1, !.onlyTransient = FALSE,
                            !.transport = TRUE]
    /\ UNCHANGED <<downloadCount, calls, completed, files, mapvars>>
TryTransportError ==
    /\ call.pc = "try"
    /\ call' = [call EXCEPT !.pc = "raised", !.error = "transport"]
    /\ hist' = [hist EXCEPT !.attempts = @ + 1, !.onlyTransient = FALSE,
                            !.transport = TRUE]
    /\ UNCHANGED <<downloadCount, calls, completed, files, mapvars>>

\* urlretrieve opened the URL: the transfer to the file starts
TryFileOpened ==
    /\ call.pc = "try"
    /\ call.op = "file"
    /\ call' = [call EXCEPT !.pc = "transfer"]
    /\ hist' = [hist EXCEPT !.attempts = @ + 1, !.ticks = 0]
    /\ files' = WriteFile(files, call.filePath, Downloaded(0))
    /\ UNCHANGED <<downloadCount, calls, completed, mapvars>>

\* urlretrieve calls the report hook, which is progressLambda when a callback
\* was supplied: _downloadProgressCallback polls the callback and raises
\* _CancelledException when it returns true; downloadToFile catches it and returns
ProgressTickIgnoresCancel(cancelled) ==
    /\ call.pc = "transfer"
    /\ call.callback
    /\ hist.ticks < MaxTicks
    /\ hist' = [hist EXCEPT !.ticks = @ + 1, !.polledTrue = @ \/ cancelled]
    /\ call' = call
    /\ UNCHANGED <<downloadCount, calls, completed, files, mapvars>>
ProgressTick(cancelled) ==
    /\ call.pc = "transfer"
    /\ call.callback
    /\ hist.ticks < MaxTicks
    /\ hist' = [hist EXCEPT !.ticks = @ + 1, !.polledTrue = @ \/ cancelled]
    /\ call' = IF cancelled
               THEN [call EXCEPT !.pc = "returned", !.result = "cancelled"]
               ELSE call
    /\ UNCHANGED <<downloadCount, calls, completed, files, mapvars>>

\* urlretrieve returns: "self._downloadCount += 1; return"
\* (with a report hook, urlretrieve calls it at least once before it returns)
TransferDone ==
    /\ call.pc = "transfer"
    /\ call.callback => hist.ticks >= 1
    /\ downloadCount' = downloadCount + 1
    /\ completed' = completed + 1
    /\ call' = [call EXCEPT !.pc = "returned", !.result = "ok"]
    /\ \E size \in BodySizes(call.filePath) :
          files' = WriteFile(files, call.filePath, Downloaded(size))
    /\ UNCHANGED <<hist, calls, mapvars>>

\* the transfer breaks with an error that is not an HTTPError
\* (connection reset, ContentTooShortError)
TransferError ==
    /\ call.pc = "transfer"
    /\ call' = [call EXCEPT !.pc = "raised", !.error = "transport"]
    /\ hist' = [hist EXCEPT !.onlyTransient = FALSE, !.transport = TRUE]
    /\ UNCHANGED <<downloadCount, calls, completed, files, mapvars>>

\* urlopen returned a response: "with ... as response: self._downloadCount += 1"
TryBufferOpened ==
    /\ call.pc = "try"
    /\ call.op = "buffer"
    /\ downloadCount' = downloadCount + 1
    /\ call' = [call EXCEPT !.pc = "read"]
    /\ hist' = [hist EXCEPT !.attempts = @ + 1]
    /\ UNCHANGED <<calls, completed, files, mapvars>>

\* "return response.read()" hands the payload back
ReadDone ==
    /\ call.pc = "read"
    /\ call' = [call EXCEPT !.pc = "returned", !.result = "ok"]
    /\ completed' = completed + 1
    /\ UNCHANGED <<downloadCount, hist, calls, files, mapvars>>

\* response.read() raises (connection reset, IncompleteRead): not an HTTPError,
\* so it leaves the call; the count was already incremented
ReadError ==
    /\ call.pc = "read"
    /\ call' = [call EXCEPT !.pc = "raised", !.error = "transport"]
    /\ hist' = [hist EXCEPT !.onlyTransient = FALSE, !.transport = TRUE]
    /\ UNCHANGED <<downloadCount, calls, completed, files, mapvars>>

\* "except urllib.error.HTTPError as ex:" of either operation: retry after a
\* sleep, or re-raise
ExceptHTTPError ==
    /\ call.pc = "except"
    /\ IF IsRetrying(call.ex, call.retryCount)
       THEN /\ hist' = [hist EXCEPT !.sleeps = Append(@, call.retryDelay)]
            /\ call' = [call EXCEPT !.pc = "try",
                                    !.retryCount = @ - 1,
                                    !.retryDelay = DoubleDelay(@),
                                    !.ex = 0]
       ELSE /\ call' = [call EXCEPT !.pc = "raised", !.error = "http",
                                    !.code = call.ex]
            /\ hist' = hist
    /\ UNCHANGED <<downloadCount, calls, completed, files, mapvars>>

\* the steps of a running download call that was given no callback
PlainDownloaderStep ==
    \/ TryHttpError
    \/ TryTransportError
    \/ TryFileOpened
    \/ TransferDone
    \/ TransferError
    \/ TryBufferOpened
    \/ ReadDone
    \/ ReadError
    \/ ExceptHTTPError

\* the steps of a running download call
DownloaderStep ==
    \/ PlainDownloaderStep
    \/ \E cancelled \in BOOLEAN : ProgressTick(cancelled)

(***************************************************************************)
(* A caller that drives one Downloader directly with any arguments.        *)
(***************************************************************************)
HarnessPath == [dir |-> "", name |-> <<"out">>]

CallDownloadToFile ==
    /\ mpc = "off"
    /\ call.pc = "idle" \/ CallOver
    /\ calls < MaxCalls
    /\ \E n \in 0..MaxRetryBudget, cb \in BOOLEAN :
          BeginCall("file", HarnessPath, n, cb)
    /\ UNCHANGED <<downloadCount, completed, files, mapvars>>

CallDownloadToBuffer ==
    /\ mpc = "off"
    /\ call.pc = "idle" \/ CallOver
    /\ calls < MaxCalls
    /\ \E n \in 0..MaxRetryBudget : BeginCall("buffer", HarnessPath, n, FALSE)
    /\ UNCHANGED <<downloadCount, completed, files, mapvars>>

\* Downloader.__init__
InitDownloader ==
    /\ downloadCount = 0
    /\ call = NoCall
    /\ hist = NoHist
    /\ calls = 0
    /\ completed = 0

\* _downloadMapData is not running
MapOff ==
    /\ mpc = "off"
    /\ milieuIdx = 0
    /\ fetchedSectors = <<>>
    /\ universeJson = <<>>
    /\ nameMappings = <<>>
    /\ sectorIdx = 0
    /\ fatal = "none"
    /\ startTime = 0
    /\ arg = <<>>
    /\ ret = <<>>

InitFetcher ==
    /\ InitDownloader
    /\ files = <<>>
    /\ MapOff

NextFetcher ==
    \/ CallDownloadToFile
    \/ CallDownloadToBuffer
    \/ DownloaderStep

SpecFetcher == InitFetcher /\ [][NextFetcher]_vars

(***************************************************************************)
(* scripts/map_update.py: strings.  A string is a sequence of one-character *)
(* strings.                                                                 *)
(***************************************************************************)
UpperCase == <<"A", "B", "C", "D", "E", "F", "G", "H", "I", "J", "K", "L", "M",
               "N", "O", "P", "Q", "R", "S", "T", "U", "V", "W", "X", "Y", "Z">>
LowerCase == <<"a", "b", "c", "d", "e", "f", "g", "h", "i", "j", "k", "l", "m",
               "n", "o", "p", "q", "r", "s", "t", "u", "v", "w", "x", "y", "z">>

\* str.lower() of one character
LowerChar(c) ==
    IF \E i \in 1..26 : UpperCase[i] = c
    THEN LowerCase[CHOOSE i \in 1..26 : UpperCase[i] = c]
    ELSE c

\* str.lower()
LowerKeepsCase(str) == str
Lower(str) == [i \in 1..Len(str) |-> LowerChar(str[i])]

Digits == <<"0", "1", "2", "3", "4", "5", "6", "7", "8", "9">>

\* str(n) of a natural number
RECURSIVE NatToStr(_)
NatToStr(n) ==
    IF n < 10 THEN <<Digits[n + 1]>>
    ELSE NatToStr(n \div 10) \o <<Digits[(n % 10) + 1]>>

\* the text an f-string gives an int
IntToStr(n) == IF n < 0 THEN <<"-">> \o NatToStr(-n) ELSE NatToStr(n)

\* str.split(' '): the pieces between single spaces, empty pieces included
RECURSIVE SplitFrom(_, _, _)
SplitFrom(str, i, piece) ==
    IF i > Len(str) THEN <<piece>>
    ELSE IF str[i] = " " THEN <<piece>> \o SplitFrom(str, i + 1, <<>>)
    ELSE SplitFrom(str, i + 1, Append(piece, str[i]))

Split(str) == SplitFrom(str, 1, <<>>)

Range(seq) == {seq[i] : i \in 1..Len(seq)}

(***************************************************************************)
(* scripts/map_update.py: collision resolution of one epoch's index.       *)
(* An index entry is [Names, X, Y, HasTags, Tags]; Names is the list of the *)
(* entry's name texts.                                                      *)
(***************************************************************************)
OTU == <<"O", "T", "U">>

\* "names[0]['Text']"
CanonicalName(sectorInfo) == sectorInfo.Names[1]

\* "tags = sectorInfo['Tags'] if 'Tags' in sectorInfo else ''; tags.split(' ');
\*  'OTU' in tags"
IsOfficialBySubstring(sectorInfo) ==
    LET tags == IF sectorInfo.HasTags THEN sectorInfo.Tags ELSE <<>>
    IN  \E i \in 1..Len(tags) : i + 2 <= Len(tags) /\ SubSeq(tags, i, i + 2) = OTU
IsOfficial(sectorInfo) ==
    LET tags == IF sectorInfo.HasTags THEN sectorInfo.Tags ELSE <<>>
    IN  OTU \in Range(Split(tags))

\* f'{canonicalName} ({sectorX}, {sectorY})'
DisambiguatedNameYX(canonicalName, sectorX, sectorY) ==
    canonicalName \o <<" ", "(">> \o IntToStr(sectorY) \o <<",", " ">>
                  \o IntToStr(sectorX) \o <<")">>
DisambiguatedNameXOnly(canonicalName, sectorX, sectorY) ==
    canonicalName \o <<" ", "(">> \o IntToStr(sectorX) \o <<")">>
DisambiguatedName(canonicalName, sectorX, sectorY) ==
    canonicalName \o <<" ", "(">> \o IntToStr(sectorX) \o <<",", " ">>
                  \o IntToStr(sectorY) \o <<")">>

\* keys of sectorNameMap: the lower-cased first names of the index as fetched
SectorNameKeysAsFetched(sectors) ==
    {CanonicalName(sectors[i]) : i \in 1..Len(sectors)}
SectorNameKeys(sectors) ==
    {Lower(CanonicalName(sectors[i])) : i \in 1..Len(sectors)}

\* sectorNameMap[lowerName]: the entries with that lower-cased first name, in
\* index order (as positions in the index)
SectorList(sectors, lowerName) ==
    SelectSeq([i \in 1..Len(sectors) |-> i],
              LAMBDA i : Lower(CanonicalName(sectors[i])) = lowerName)

\* the order in which the two nested loops over sectorNameMap.items() and
\* sectorList visit the entries of colliding groups: groups in the order their
\* name first appears in the index, entries in index order
RECURSIVE VisitOrder(_, _, _)
VisitOrder(sectors, i, seen) ==
    IF i > Len(sectors) THEN <<>>
    ELSE LET lowerName == Lower(CanonicalName(sectors[i]))
             sectorList == SectorList(sectors, lowerName)
         IN  IF lowerName \in seen THEN VisitOrder(sectors, i + 1, seen)
             ELSE (IF Len(sectorList) <= 1 THEN <<>> ELSE sectorList)
                  \o VisitOrder(sectors, i + 1, seen \cup {lowerName})

\* "if len(officialSectors) == 1: if sectorInfo in officialSectors: continue"
\* for the entry at position i of the (partly patched) index `sectors`;
\* `fetched` is the index as fetched
KeepsNameIfAnyOfficial(sectors, fetched, i) ==
    LET sectorList == SectorList(fetched, Lower(CanonicalName(fetched[i])))
        officialSectors == SelectSeq(sectorList, LAMBDA j : IsOfficial(fetched[j]))
    IN  /\ Len(officialSectors) >= 1
        /\ \E k \in 1..Len(officialSectors) : sectors[officialSectors[k]] = sectors[i]
KeepsName(sectors, fetched, i) ==
    LET sectorList == SectorList(fetched, Lower(CanonicalName(fetched[i])))
        officialSectors == SelectSeq(sectorList, LAMBDA j : IsOfficial(fetched[j]))
    IN  /\ Len(officialSectors) = 1
        /\ \E k \in 1..Len(officialSectors) : sectors[officialSectors[k]] = sectors[i]

\* the body of the inner loop (lines 157-186) applied to the entries of `order`
\* one after the other; st = [sectors, nameMappings, error]
RECURSIVE Disambiguate(_, _, _)
Disambiguate(st, fetched, order) ==
    IF order = <<>> \/ st.error # "none" THEN st
    ELSE LET i == Head(order)
             sectorInfo == st.sectors[i]
             names == sectorInfo.Names
             canonicalName == names[1]
             disambiguatedName ==
                 DisambiguatedName(canonicalName, sectorInfo.X, sectorInfo.Y)
         IN  IF KeepsName(st.sectors, fetched, i)
             THEN Disambiguate(st, fetched, Tail(order))
             ELSE IF Lower(disambiguatedName) \in SectorNameKeys(fetched)
             THEN [st EXCEPT !.error = "Disambiguated name is already in use"]
             ELSE Disambiguate(
                    [st EXCEPT
                       !.sectors[i].Names = <<disambiguatedName>> \o names,
                       !.nameMappings =
                           [n \in DOMAIN st.nameMappings \cup {disambiguatedName} |->
                               IF n = disambiguatedName THEN canonicalName
                               ELSE st.nameMappings[n]]],
                    fetched, Tail(order))

\* lines 126-186: the patched index, nameMappings and the error raised, if any
ResolveCollisions(fetched) ==
    Disambiguate([sectors |-> fetched, nameMappings |-> <<>>, error |-> "none"],
                 fetched, VisitOrder(fetched, 1, {}))

(***************************************************************************)
(* scripts/map_update.py: constants, file names and payloads.              *)
(***************************************************************************)
\* number of epochs of _MilieuList the model runs through
NumMilieu == 2

_MilieuList ==
    SubSeq(<<"IW", "M0", "M990", "M1105", "M1120", "M1201", "M1248", "M1900">>,
           1, NumMilieu)

_MinMilieuFiles == 3

_DataFormatVersion == "4.0"

\* a file of the output tree: the directory ("" is the map directory itself,
\* otherwise the epoch's directory under milieu/) and the file name
Path(dir, name) == [dir |-> dir, name |-> name]

_UniverseFileName == <<"universe.json">>
_SophontsFileName == <<"sophonts.json">>
_AllegiancesFileName == <<"allegiances.json">>
_MainsFileName == <<"mains.json">>
_DataFormatFileName == <<"dataformat.txt">>
_TimestampFileName == <<"timestamp.txt">>

_WindowsIllegalCharacters == {"/", "<", ">", ":", "\"", "\\", "|", "?", "*"}
_LinuxIllegalCharacters == {"/"}
_MacOSIllegalCharacters == {"/", ":"}

_EncodedCharactersNoPercent ==
    _WindowsIllegalCharacters \cup _LinuxIllegalCharacters \cup _MacOSIllegalCharacters
_EncodedCharacters ==
    {"%"} \cup _WindowsIllegalCharacters \cup _LinuxIllegalCharacters
          \cup _MacOSIllegalCharacters

\* ord(char) of the characters of _EncodedCharacters
Ord(char) ==
    CASE char = "%" -> 37
      [] char = "/" -> 47
      [] char = "<" -> 60
      [] char = ">" -> 62
      [] char = ":" -> 58
      [] char = "\"" -> 34
      [] char = "\\" -> 92
      [] char = "|" -> 124
      [] char = "?" -> 63
      [] char = "*" -> 42

HexDigits == <<"0", "1", "2", "3", "4", "5", "6", "7", "8", "9",
               "a", "b", "c", "d", "e", "f">>

\* format(n, "x")
RECURSIVE FormatHex(_)
FormatHex(n) ==
    IF n < 16 THEN <<HexDigits[n + 1]>>
    ELSE FormatHex(n \div 16) \o <<HexDigits[(n % 16) + 1]>>

RECURSIVE _encodeFileName(_)
_encodeFileName(rawFileName) ==
    IF rawFileName = <<>> THEN <<>>
    ELSE LET char == Head(rawFileName)
         IN  (IF char \in _EncodedCharacters
              THEN <<"%">> \o FormatHex(Ord(char))
              ELSE <<char>>) \o _encodeFileName(Tail(rawFileName))

\* str.splitlines(): the lines of a text without their line ends, which are
\* "\n", "\r", "\r\n" and "\f" (of the further line boundaries of Python no
\* one is part of a text of the model); `line` is the line being read
RECURSIVE SplitLinesFrom(_, _, _)
SplitLinesFrom(text, i, line) ==
    IF i > Len(text) THEN (IF line = <<>> THEN <<>> ELSE <<line>>)
    ELSE IF text[i] \in {"\n", "\f"}
    THEN <<line>> \o SplitLinesFrom(text, i + 1, <<>>)
    ELSE IF text[i] = "\r"
    THEN <<line>> \o SplitLinesFrom(text,
                        IF i < Len(text) /\ text[i + 1] = "\n" THEN i + 2 ELSE i + 1,
                        <<>>)
    ELSE SplitLinesFrom(text, i + 1, Append(line, text[i]))

splitlines(text) == SplitLinesFrom(text, 1, <<>>)

\* the characters of the classes \s and \d
Whitespace == {" ", "\t", "\n", "\r", "\f"}
Digit == Range(Digits)

\* "\d{4}-\d{2}-\d{2}T\d{2}:\d{2}:\d{2}[+-]\d{2}:\d{2}": what each position
\* of the pattern accepts
TimestampShape ==
    <<"\\d", "\\d", "\\d", "\\d", "-", "\\d", "\\d", "-", "\\d", "\\d", "T",
      "\\d", "\\d", ":", "\\d", "\\d", ":", "\\d", "\\d", "[+-]",
      "\\d", "\\d", ":", "\\d", "\\d">>

Accepts(class, char) ==
    IF class = "\\d" THEN char \in Digit
    ELSE IF class = "[+-]" THEN char \in {"+", "-"}
    ELSE char = class

\* "\s*" read from position i of the line: the position after it
RECURSIVE SkipWhitespace(_, _)
SkipWhitespace(line, i) ==
    IF i <= Len(line) /\ line[i] \in Whitespace THEN SkipWhitespace(line, i + 1)
    ELSE i

\* _SectorTimestampPattern.search(line)
_SectorTimestampPattern(line) ==
    /\ Len(line) >= 1
    /\ line[1] = "#"
    /\ LET i == SkipWhitespace(line, 2)
           n == Len(TimestampShape)
       IN  /\ i + n - 1 <= Len(line)
           /\ \A k \in 1..n : Accepts(TimestampShape[k], line[i + k - 1])
           /\ \A k \in (i + n)..Len(line) : line[k] \in Whitespace

\* modifiedData: "modifiedData += line + '\n'" for the lines without a match
RECURSIVE ModifiedData(_)
ModifiedData(lines) ==
    IF lines = <<>> THEN <<>>
    ELSE (IF ~_SectorTimestampPattern(Head(lines)) THEN Head(lines) \o <<"\n">>
          ELSE <<>>) \o ModifiedData(Tail(lines))

\* linesRemoved
LinesRemoved(lines) == Len(SelectSeq(lines, _SectorTimestampPattern))

\* _removeTimestampFromSector: [ok, data], where ok is FALSE for the result
\* None and data is modifiedData
_removeTimestampFromSectorAtLeastOne(sectorData) ==
    LET lines == splitlines(sectorData)
    IN  IF LinesRemoved(lines) < 1 THEN [ok |-> FALSE, data |-> <<>>]
        ELSE [ok |-> TRUE, data |-> ModifiedData(lines)]
_removeTimestampFromSector(sectorData) ==
    LET lines == splitlines(sectorData)
    IN  IF LinesRemoved(lines) # 1 THEN [ok |-> FALSE, data |-> <<>>]
        ELSE [ok |-> TRUE, data |-> ModifiedData(lines)]

\* lines of sector data: timestamp comments that match the pattern, comments
\* that do not, and a line of world data
DateTime ==
    <<"2", "0", "2", "4", "-", "0", "3", "-", "0", "1", "T", "1", "0", ":",
      "2", "0", ":", "3", "0", "+", "0", "0", ":", "0", "0">>
TimestampLine == <<"#", " ">> \o DateTime
TimestampTight == <<"#">> \o DateTime \o <<" ", "\t">>
TimestampIndented == <<" ">> \o TimestampLine
TimestampTrailed == TimestampLine \o <<" ", "x">>
WorldLine == <<"0", "1", "0", "1", " ", "R">>

\* the text made of the lines, each followed by eol but for the last one,
\* which is followed by `last`
RECURSIVE JoinLines(_, _, _)
JoinLines(lines, eol, last) ==
    IF lines = <<>> THEN <<>>
    ELSE IF Len(lines) = 1 THEN Head(lines) \o last
    ELSE Head(lines) \o eol \o JoinLines(Tail(lines), eol, last)

\* contents of the files the run writes itself
UniverseFile(sectors) == [kind |-> "universe", size |-> 2 + Len(sectors), data |-> sectors]
SectorFile(sectorData) == [kind |-> "sec", size |-> Len(sectorData), data |-> sectorData]
MetadataFile(metadata) == [kind |-> "xml", size |-> 1 + Len(metadata.Names), data |-> metadata]
\* the timestamp file holds the time it is given, in _TimestampFormat
TimestampFile(time) == [kind |-> "text", size |-> 26, data |-> <<time>>]
DataFormatFile == [kind |-> "text", size |-> Len(_DataFormatVersion), data |-> <<_DataFormatVersion>>]

\* an index entry
Sector(name, x, y, hasTags, tags) ==
    [Names |-> <<name>>, X |-> x, Y |-> y, HasTags |-> hasTags, Tags |-> tags]

(***************************************************************************)
(* What the server answers to the requests of one run.                     *)
(***************************************************************************)
NameA == <<"A">>
NameLowerA == <<"a">>
NameSlash == <<"B", "/", "%">>
NameInUse == <<"A", " ", "(", "0", ",", " ", "1", ")">>
NameAlternate == <<"Z">>

Universe(sectors) == [HasSectors |-> TRUE, Sectors |-> sectors]

\* the parsed answers to an index request: without a Sectors collection, with
\* an empty one, with one entry, with a collision that has one official entry,
\* with two entries of the same name and coordinates, and with a collision
\* whose disambiguated name is in use
MapUniverses ==
    { [HasSectors |-> FALSE, Sectors |-> <<>>],
      Universe(<<>>),
      Universe(<<Sector(NameSlash, 0, 1, FALSE, <<>>)>>),
      Universe(<<Sector(NameA, 0, 0, TRUE, OTU),
                 Sector(NameLowerA, -1, 1, FALSE, <<>>)>>),
      Universe(<<Sector(NameA, 0, 1, FALSE, <<>>),
                 Sector(NameA, 0, 1, TRUE, <<>>)>>),
      Universe(<<Sector(NameA, 0, 1, FALSE, <<>>),
                 Sector(NameLowerA, 1, 0, FALSE, <<>>),
                 Sector(NameInUse, 1, 1, FALSE, <<>>)>>) }

\* the answers to a sector-data request: texts with one timestamp comment,
\* with none and with two
SectorPayloads ==
    { JoinLines(<<TimestampLine, WorldLine>>, <<"\n">>, <<"\n">>),
      JoinLines(<<WorldLine, TimestampIndented>>, <<"\r", "\n">>, <<>>),
      JoinLines(<<TimestampLine>>, <<"\n">>, <<"\n">>),
      JoinLines(<<WorldLine>>, <<"\n">>, <<"\n">>),
      JoinLines(<<TimestampLine, WorldLine, TimestampLine>>, <<"\n">>, <<"\n">>) }

\* the parsed answers to the metadata request for an index entry: the texts of
\* the Name elements and of the X and Y elements; the answer that fits the
\* entry, the answers that differ from it in one of the three, and the answer
\* without any of them
MetadataPayloads(sectorInfo) ==
    LET names == sectorInfo.Names
        fitting == {<<names[i], NameAlternate>> : i \in 1..Len(names)}
        nameLists == {<<>>, <<NameAlternate>>} \cup fitting
        xs == {<<>>, <<sectorInfo.X>>, <<sectorInfo.X + 1>>}
        ys == {<<>>, <<sectorInfo.Y>>, <<sectorInfo.Y + 1>>}
        off(p) == (IF p.Names \in fitting THEN 0 ELSE 1)
                  + (IF p.X = <<sectorInfo.X>> THEN 0 ELSE 1)
                  + (IF p.Y = <<sectorInfo.Y>> THEN 0 ELSE 1)
    IN  {p \in [Names : nameLists, X : xs, Y : ys] : off(p) <= 1}
        \cup {[Names |-> <<>>, X |-> <<>>, Y |-> <<>>]}

\* a snapshot a previous run left in the map directory
PreviousSnapshot ==
    LET paths == {Path("", _SophontsFileName), Path("", _TimestampFileName),
                  Path("", _DataFormatFileName), Path("IW", _UniverseFileName)}
    IN  [p \in paths |->
            IF p.name = _TimestampFileName THEN TimestampFile(-1)
            ELSE IF p.name = _DataFormatFileName THEN DataFormatFile
            ELSE IF p.name = _UniverseFileName THEN UniverseFile(<<>>)
            ELSE Downloaded(1)]

(***************************************************************************)
(* scripts/map_update.py: _downloadMapData                                 *)
(***************************************************************************)
\* the default of the retryCount parameter
DefaultRetryCount == 3

NoPath == [dir |-> "", name |-> <<>>]

\* "fileRetriever.downloadToFile(url=..., filePath=...)"
BeginDownloadToFile(filePath) == BeginCall("file", filePath, DefaultRetryCount, FALSE)

\* "fileRetriever.downloadToBuffer(url=...)"
BeginDownloadToBuffer == BeginCall("buffer", NoPath, DefaultRetryCount, FALSE)

milieu == _MilieuList[milieuIdx]
sectorInfo == universeJson[sectorIdx]
canonicalName == sectorInfo.Names[1]
encodedFileName == _encodeFileName(canonicalName)
universeFilePath == Path(milieu, _UniverseFileName)
sectorFilePath == Path(milieu, encodedFileName \o <<".sec">>)
metadataFilePathSec == Path(milieu, encodedFileName \o <<".sec">>)
metadataFilePath == Path(milieu, encodedFileName \o <<".xml">>)

\* an exception leaves _downloadMapData
RaiseAndGoOn(message) ==
    /\ mpc' = "sanity"
    /\ fatal' = message
    /\ startTime' = startTime
Raise(message) ==
    /\ mpc' = "failed"
    /\ fatal' = message
    /\ startTime' = startTime

\* datetime.datetime.utcnow(): the clock of the model ticks with every
\* request the run issues
UtcNow == calls

\* lines 80-94: the old tree is deleted, the start time is taken and the
\* first download starts
ResetKeepsOldTree ==
    /\ mpc = "start"
    /\ files' = files
    /\ mpc' = "sophonts"
    /\ BeginDownloadToFile(Path("", _SophontsFileName))
    /\ startTime' = UtcNow
    /\ UNCHANGED <<downloadCount, completed, milieuIdx, fetchedSectors,
                   universeJson, nameMappings, sectorIdx, fatal, arg, ret>>
Reset ==
    /\ mpc = "start"
    /\ files' = <<>>
    /\ mpc' = "sophonts"
    /\ BeginDownloadToFile(Path("", _SophontsFileName))
    /\ startTime' = UtcNow
    /\ UNCHANGED <<downloadCount, completed, milieuIdx, fetchedSectors,
                   universeJson, nameMappings, sectorIdx, fatal, arg, ret>>

\* lines 96-99
DownloadAllegiances ==
    /\ mpc = "sophonts"
    /\ call.pc = "returned"
    /\ mpc' = "allegiances"
    /\ BeginDownloadToFile(Path("", _AllegiancesFileName))
    /\ UNCHANGED <<downloadCount, completed, files, milieuIdx, fetchedSectors,
                   universeJson, nameMappings, sectorIdx, fatal,
                   startTime, arg, ret>>

\* lines 101-104
DownloadMains ==
    /\ mpc = "allegiances"
    /\ call.pc = "returned"
    /\ mpc' = "mains"
    /\ BeginDownloadToFile(Path("", _MainsFileName))
    /\ UNCHANGED <<downloadCount, completed, files, milieuIdx, fetchedSectors,
                   universeJson, nameMappings, sectorIdx, fatal,
                   startTime, arg, ret>>

\* lines 106-115 for the first epoch
DownloadFirstUniverse ==
    /\ mpc = "mains"
    /\ call.pc = "returned"
    /\ mpc' = "universe"
    /\ milieuIdx' = 1
    /\ BeginDownloadToBuffer
    /\ UNCHANGED <<downloadCount, completed, files, fetchedSectors,
                   universeJson, nameMappings, sectorIdx, fatal,
                   startTime, arg, ret>>

\* what follows the work on entry i of an index of n entries (i = 0: the index
\* was just written): the sector-data request of the next entry, the index
\* request of the next epoch, or the sanity checks
Continue(i, n) ==
    /\ fatal' = fatal /\ startTime' = startTime
    /\ UNCHANGED <<downloadCount, completed>>
    /\ IF i < n
       THEN /\ mpc' = "sector"
            /\ sectorIdx' = i + 1
            /\ milieuIdx' = milieuIdx
            /\ BeginDownloadToBuffer
       ELSE IF milieuIdx < Len(_MilieuList)
       THEN /\ mpc' = "universe"
            /\ sectorIdx' = i
            /\ milieuIdx' = milieuIdx + 1
            /\ BeginDownloadToBuffer
       ELSE /\ mpc' = "sanity"
            /\ sectorIdx' = i
            /\ milieuIdx' = milieuIdx
            /\ UNCHANGED <<call, hist, calls>>

\* lines 116-210: the index of the epoch is parsed, its collisions are
\* resolved, the patched index is written, and the first request of the entry
\* loop (or what follows an empty loop) is issued
ProcessUniverse ==
    /\ mpc = "universe"
    /\ call.pc = "returned"
    /\ \E payload \in MapUniverses :
        LET resolved == ResolveCollisions(payload.Sectors)
        IN  /\ arg' = payload
            /\ ret' = resolved
            /\ IF ~payload.HasSectors
               THEN /\ Raise("Invalid sector list")
                    /\ UNCHANGED <<dlvars, milieuIdx, fetchedSectors, universeJson,
                                   nameMappings, sectorIdx>>
               ELSE IF resolved.error # "none"
               THEN /\ Raise(resolved.error)
                    /\ fetchedSectors' = payload.Sectors
                    /\ universeJson' = resolved.sectors
                    /\ nameMappings' = resolved.nameMappings
                    /\ UNCHANGED <<dlvars, milieuIdx, sectorIdx>>
               ELSE /\ fetchedSectors' = payload.Sectors
                    /\ universeJson' = resolved.sectors
                    /\ nameMappings' = resolved.nameMappings
                    /\ files' = WriteFile(files, universeFilePath,
                                          UniverseFile(resolved.sectors))
                    /\ Continue(0, Len(resolved.sectors))

\* lines 217-234 for the sector data `payload`: the timestamp is stripped
\* from it, the sector file is written and the metadata is requested
ProcessSectorData(payload) ==
    /\ mpc = "sector"
    /\ call.pc = "returned"
    /\ LET sectorData == _removeTimestampFromSector(payload)
       IN  /\ arg' = payload
           /\ ret' = sectorData
           /\ IF ~sectorData.ok
              THEN /\ Raise("Failed to remove timestamp from sector file")
                   /\ UNCHANGED <<dlvars, milieuIdx, fetchedSectors, universeJson,
                                  nameMappings, sectorIdx>>
              ELSE /\ files' = WriteFile(files, sectorFilePath,
                                         SectorFile(sectorData.data))
                   /\ mpc' = "metadata"
                   /\ BeginDownloadToBuffer
                   /\ UNCHANGED <<downloadCount, completed, milieuIdx,
                                  fetchedSectors, universeJson, nameMappings,
                                  sectorIdx, fatal, startTime>>

ProcessSector == \E payload \in SectorPayloads : ProcessSectorData(payload)

\* lines 237-275: the checks of the metadata against the index entry and the
\* patch of its names: [error, metadata]
ValidateMetadataNoInsert(metadataXml, mappings, entry) ==
    LET names == metadataXml.Names
        name == entry.Names[1]
        mapped == name \in DOMAIN mappings
        error ==
            IF names = <<>> THEN "Failed to find Name elements"
            ELSE IF ~mapped /\ names[1] # name
            THEN "First name doesn't match canonical name"
            ELSE IF mapped /\ names[1] # mappings[name]
            THEN "First name doesn't match mapped canonical name"
            ELSE IF metadataXml.X = <<>> THEN "Failed to find X elements"
            ELSE IF metadataXml.X[1] # entry.X
            THEN "Sector X position doesn't match universe X position"
            ELSE IF metadataXml.Y = <<>> THEN "Failed to find Y elements"
            ELSE IF metadataXml.Y[1] # entry.Y
            THEN "Sector Y position doesn't match universe Y position"
            ELSE "none"
    IN  [error |-> error, metadata |-> metadataXml]
ValidateMetadata(metadataXml, mappings, entry) ==
    LET names == metadataXml.Names
        name == entry.Names[1]
        mapped == name \in DOMAIN mappings
        patched == IF mapped
                   THEN [metadataXml EXCEPT !.Names = <<name>> \o names]
                   ELSE metadataXml
        error ==
            IF names = <<>> THEN "Failed to find Name elements"
            ELSE IF ~mapped /\ names[1] # name
            THEN "First name doesn't match canonical name"
            ELSE IF mapped /\ names[1] # mappings[name]
            THEN "First name doesn't match mapped canonical name"
            ELSE IF metadataXml.X = <<>> THEN "Failed to find X elements"
            ELSE IF metadataXml.X[1] # entry.X
            THEN "Sector X position doesn't match universe X position"
            ELSE IF metadataXml.Y = <<>> THEN "Failed to find Y elements"
            ELSE IF metadataXml.Y[1] # entry.Y
            THEN "Sector Y position doesn't match universe Y position"
            ELSE "none"
    IN  [error |-> error, metadata |-> patched]

\* lines 235-286 and the next iteration up to its request: the metadata is
\* checked, patched and written
ProcessMetadata ==
    /\ mpc = "metadata"
    /\ call.pc = "returned"
    /\ \E payload \in MetadataPayloads(sectorInfo) :
        LET checked == ValidateMetadata(payload, nameMappings, sectorInfo)
        IN  /\ arg' = payload
            /\ ret' = checked
            /\ IF checked.error # "none"
               THEN /\ Raise(checked.error)
                    /\ UNCHANGED <<dlvars, milieuIdx, fetchedSectors, universeJson,
                                   nameMappings, sectorIdx>>
               ELSE /\ files' = WriteFile(files, metadataFilePath,
                                          MetadataFile(checked.metadata))
                    /\ Continue(sectorIdx, Len(universeJson))
                    /\ UNCHANGED <<fetchedSectors, universeJson, nameMappings>>

\* an error raised by the Downloader leaves _downloadMapData
DownloadFailed ==
    /\ mpc \in {"sophonts", "allegiances", "mains", "universe", "sector", "metadata"}
    /\ call.pc = "raised"
    /\ Raise("download failed")
    /\ UNCHANGED <<dlvars, milieuIdx, fetchedSectors, universeJson,
                   nameMappings, sectorIdx, arg, ret>>

\* the plain files of an epoch's directory
MilieuFiles(fs, dir) == {p \in DOMAIN fs : p.dir = dir}

\* lines 293-298
FewFilesNever(fs) == FALSE
FewFiles(fs) ==
    \E i \in 1..Len(_MilieuList) :
        Cardinality(MilieuFiles(fs, _MilieuList[i])) < _MinMilieuFiles

\* lines 300-308
EmptyFileNever(fs) == FALSE
EmptyFile(fs) == \E p \in DOMAIN fs : fs[p].size <= 0

\* lines 291-310: the sanity checks
SanityCheck ==
    /\ mpc = "sanity"
    /\ IF FewFiles(files)
       THEN Raise("Milieu directory only contains few files")
       ELSE IF EmptyFile(files)
       THEN Raise("File is empty")
       ELSE mpc' = "checked" /\ fatal' = fatal /\ startTime' = startTime
    /\ UNCHANGED <<dlvars, milieuIdx, fetchedSectors, universeJson,
                   nameMappings, sectorIdx, arg, ret>>

\* lines 312-315
WriteTimestampFinishTime ==
    /\ mpc = "checked"
    /\ files' = WriteFile(files, Path("", _TimestampFileName), TimestampFile(UtcNow))
    /\ mpc' = "timestamped"
    /\ UNCHANGED <<downloadCount, call, hist, calls, completed, milieuIdx,
                   fetchedSectors, universeJson, nameMappings, sectorIdx, fatal,
                   startTime, arg, ret>>
WriteTimestamp ==
    /\ mpc = "checked"
    /\ files' = WriteFile(files, Path("", _TimestampFileName), TimestampFile(startTime))
    /\ mpc' = "timestamped"
    /\ UNCHANGED <<downloadCount, call, hist, calls, completed, milieuIdx,
                   fetchedSectors, universeJson, nameMappings, sectorIdx, fatal,
                   startTime, arg, ret>>

\* lines 317-320, after which _downloadMapData returns
WriteDataFormat ==
    /\ mpc = "timestamped"
    /\ files' = WriteFile(files, Path("", _DataFormatFileName), DataFormatFile)
    /\ mpc' = "done"
    /\ UNCHANGED <<downloadCount, call, hist, calls, completed, milieuIdx,
                   fetchedSectors, universeJson, nameMappings, sectorIdx, fatal,
                   startTime, arg, ret>>

\* a run of _downloadMapData starts with a new Downloader, in a working
\* directory with or without the snapshot of a previous run
Init ==
    /\ InitDownloader
    /\ files \in {<<>>, PreviousSnapshot}
    /\ mpc = "start"
    /\ milieuIdx = 0
    /\ fetchedSectors = <<>>
    /\ universeJson = <<>>
    /\ nameMappings = <<>>
    /\ sectorIdx = 0
    /\ fatal = "none"
    /\ startTime = 0
    /\ arg = <<>>
    /\ ret = <<>>

Next ==
    \/ Reset
    \/ DownloadAllegiances
    \/ DownloadMains
    \/ DownloadFirstUniverse
    \/ ProcessUniverse
    \/ ProcessSector
    \/ ProcessMetadata
    \/ DownloadFailed
    \/ SanityCheck
    \/ WriteTimestamp
    \/ WriteDataFormat
    \/ PlainDownloaderStep

Spec == Init /\ [][Next]_vars

(***************************************************************************)
(* Collision resolution on its own: lines 126-186 applied to an index.     *)
(***************************************************************************)
\* number of entries of an index
MaxSectors == 3

TagsOTU == OTU
TagsSecondOTU == <<"X", " ", "O", "T", "U">>
TagsOTUX == <<"O", "T", "U", "X">>

\* the entries an index is made of: names that differ in case only or not at
\* all at three coordinates, with and without the Tags field, and a name that
\* has the form of a disambiguated name
ResolveCoordinates == {<<0, 1>>, <<0, -10>>, <<-1, 0>>}

ResolveEntries ==
    { Sector(NameA, xy[1], xy[2], tags[1], tags[2]) :
        xy \in ResolveCoordinates,
        tags \in {<<FALSE, <<>>>>, <<TRUE, TagsOTU>>} }
    \cup { Sector(NameA, 0, 1, TRUE, tags) : tags \in {TagsSecondOTU, TagsOTUX} }
    \cup { Sector(NameLowerA, xy[1], xy[2], FALSE, <<>>) : xy \in ResolveCoordinates }
    \cup { Sector(NameLowerA, 0, 1, TRUE, TagsOTU),
           Sector(NameInUse, 1, 1, FALSE, <<>>) }

ResolveIndexes == UNION {[1..n -> ResolveEntries] : n \in 0..MaxSectors}

InitResolve ==
    /\ InitDownloader
    /\ files = <<>>
    /\ mpc = "resolve"
    /\ milieuIdx = 1
    /\ fetchedSectors \in ResolveIndexes
    /\ universeJson = fetchedSectors
    /\ nameMappings = <<>>
    /\ sectorIdx = 0
    /\ fatal = "none"
    /\ startTime = 0
    /\ arg = <<>>
    /\ ret = <<>>

\* lines 126-186
ResolveIndex ==
    /\ mpc = "resolve"
    /\ LET resolved == ResolveCollisions(fetchedSectors)
       IN  /\ universeJson' = resolved.sectors
           /\ nameMappings' = resolved.nameMappings
           /\ IF resolved.error # "none"
              THEN Raise(resolved.error)
              ELSE mpc' = "resolved" /\ fatal' = fatal /\ startTime' = startTime
    /\ UNCHANGED <<dlvars, milieuIdx, fetchedSectors, sectorIdx, arg, ret>>

NextResolve == ResolveIndex

SpecResolve == InitResolve /\ [][NextResolve]_vars

(***************************************************************************)
(* The timestamp removal on its own: lines 217-234 applied to the sector   *)
(* data of the first entry of a run, for any text of a few lines.          *)
(***************************************************************************)
\* number of lines of a sector-data text
MaxLines == 3

\* the lines a text is made of: comments that match _SectorTimestampPattern
\* (the second one without a blank after '#', with blanks at its end),
\* comments that do not (indented, followed by text), a line of world data
\* and an empty line
SectorLines ==
    {TimestampLine, TimestampTight, TimestampIndented, TimestampTrailed,
     WorldLine, <<>>}

\* the texts: any lines, ended by "\n", "\r\n" or "\r", the last line with or
\* without a line end
SectorTexts ==
    {JoinLines(lines, eol, last) :
        lines \in UNION {[1..n -> SectorLines] : n \in 0..MaxLines},
        eol \in {<<"\n">>, <<"\r", "\n">>, <<"\r">>},
        last \in {<<>>, <<"\n">>}}

\* the run has fetched the sector data of the only entry of the first epoch:
\* arg is the text it received
InitStrip ==
    /\ downloadCount = 5
    /\ calls = 5
    /\ completed = 5
    /\ call = [NoCall EXCEPT !.op = "buffer", !.pc = "returned",
                             !.retryCount = DefaultRetryCount,
                             !.retryDelay = _initialRetryDelaySeconds,
                             !.result = "ok"]
    /\ hist = [NoHist EXCEPT !.attempts = 1, !.budget = DefaultRetryCount,
                             !.countAtCall = 4]
    /\ mpc = "sector"
    /\ milieuIdx = 1
    /\ sectorIdx = 1
    /\ fetchedSectors = <<Sector(NameSlash, 0, 1, FALSE, <<>>)>>
    /\ universeJson = fetchedSectors
    /\ nameMappings = <<>>
    /\ fatal = "none"
    /\ startTime = 0
    /\ files = WriteFile(
                 WriteFile(
                   WriteFile(
                     WriteFile(<<>>, Path("", _SophontsFileName), Downloaded(1)),
                     Path("", _AllegiancesFileName), Downloaded(1)),
                   Path("", _MainsFileName), Downloaded(1)),
                 Path("IW", _UniverseFileName), UniverseFile(universeJson))
    /\ arg \in SectorTexts
    /\ ret = <<>>

\* lines 217-234 for the text received
ProcessFetchedSector == ProcessSectorData(arg)

NextStrip == ProcessFetchedSector

SpecStrip == InitStrip /\ [][NextStrip]_vars

(***************************************************************************)
(* _encodeFileName on its own, applied to any short name.                  *)
(***************************************************************************)
\* number of characters of a name
MaxNameLen == 3

\* the characters of a name: the ones that are escaped, and letters and
\* digits that also read as hexadecimal digits
NameCharacters ==
    {"%", "/", "<", ">", ":", "\"", "\\", "|", "?", "*", "2", "5", "a", "f", "A"}

FileNames == UNION {[1..n -> NameCharacters] : n \in 0..MaxNameLen}

InitEncode ==
    /\ InitDownloader
    /\ files = <<>>
    /\ mpc = "encode"
    /\ milieuIdx = 0
    /\ fetchedSectors = <<>>
    /\ universeJson = <<>>
    /\ nameMappings = <<>>
    /\ sectorIdx = 0
    /\ fatal = "none"
    /\ startTime = 0
    /\ arg \in FileNames
    /\ ret = <<>>

\* "encodedFileName = _encodeFileName(rawFileName=canonicalName)"
EncodeFileName ==
    /\ mpc = "encode"
    /\ ret' = _encodeFileName(arg)
    /\ mpc' = "encoded"
    /\ UNCHANGED <<dlvars, milieuIdx, fetchedSectors, universeJson, nameMappings,
                   sectorIdx, fatal, startTime, arg>>

NextEncode == EncodeFileName

SpecEncode == InitEncode /\ [][NextEncode]_vars

(***************************************************************************)
(* Properties of the Downloader.                                           *)
(***************************************************************************)
TransientCodes == {408, 409, 425, 429, 500, 502, 503, 504, 509}

RECURSIVE Pow2(_)
Pow2(k) == IF k = 0 THEN 1 ELSE 2 * Pow2(k - 1)

\* C1: in a call with retry budget n whose failures so far are all HTTP errors
\* with a transient status (and that was not cancelled), at most n+1 attempts
\* are made; a successful attempt ends the call at once with success; and the
\* call ends either that way or, after n+1 failed attempts, by raising the
\* HTTP error of the last attempt.
C1_BoundedRetry ==
    (hist.onlyTransient /\ ~hist.polledTrue) =>
        /\ hist.attempts <= hist.budget + 1
        /\ call.result = "ok" => call.pc = "returned"
        /\ CallOver =>
            \/ call.pc = "returned" /\ call.result = "ok" /\ call.error = "none"
            \/ /\ call.pc = "raised"
               /\ call.result = "none"
               /\ hist.attempts = hist.budget + 1
               /\ call.error = "http"
               /\ call.code = hist.lastCode
               /\ call.code \in TransientCodes

\* C1 witness: a call with a positive budget n raised after n+1 attempts that
\* all failed with a transient status
C1_Witness ==
    /\ call.pc = "raised"
    /\ hist.onlyTransient
    /\ hist.budget = MaxRetryBudget
    /\ hist.attempts = hist.budget + 1
    /\ call.error = "http"
    /\ call.code = 509

\* C2: the k-th sleep of a call lasts 5 * 2^(k-1) seconds, each retry takes one
\* off the budget, and there is exactly one sleep between two consecutive
\* attempts: none before the first attempt and none after the last.
C2_Backoff ==
    /\ \A k \in 1..Len(hist.sleeps) : hist.sleeps[k] = 5 * Pow2(k - 1)
    /\ call.retryCount = hist.budget - Len(hist.sleeps)
    /\ call.pc \in {"idle", "try"} => Len(hist.sleeps) = hist.attempts
    /\ call.pc \in {"transfer", "read", "except", "returned", "raised"}
           => Len(hist.sleeps) = hist.attempts - 1

\* C2 witness: a call that ended after three retries slept 5, 10 and 20 seconds
C2_Witness ==
    /\ CallOver
    /\ hist.sleeps = <<5, 10, 20>>
    /\ hist.attempts = 4

\* C3: an HTTP error whose status is not transient is re-raised by the handler
\* without a sleep and without a further attempt, whatever budget remains.
C3_NonTransientNotRetried ==
    [][(call.pc = "except" /\ call.ex \notin TransientCodes) =>
          /\ call'.pc = "raised"
          /\ call'.error = "http"
          /\ call'.code = call.ex
          /\ call'.retryCount = call.retryCount
          /\ hist' = hist]_vars

\* C3 witness: the first attempt failed with 404 and the call raised it after
\* exactly one attempt although budget was left
C3_Witness ==
    /\ call.pc = "raised"
    /\ call.error = "http"
    /\ call.code = 404
    /\ hist.attempts = 1
    /\ hist.sleeps = <<>>
    /\ call.retryCount > 0

\* C4: once an attempt of a call raised an error that is not an HTTP error, the
\* call has raised that error: it never sleeps or attempts again, whatever
\* budget remains.
C4_TransportErrorNotRetried ==
    hist.transport =>
        /\ call.pc = "raised"
        /\ call.error = "transport"
        /\ Len(hist.sleeps) = hist.attempts - 1

\* C4 witness: a transport error on the first attempt of a call with budget left
C4_Witness ==
    /\ hist.transport
    /\ call.pc = "raised"
    /\ hist.attempts = 1
    /\ call.retryCount > 0

\* C5: between calls, downloadCount() equals the number of calls that
\* completed their download.
C5_CountIsCompleted ==
    (call.pc = "idle" \/ CallOver) => downloadCount = completed

\* C6: once the callback returned true on a progress tick, the call has
\* returned normally as cancelled, with no error, no sleep or attempt after the
\* tick and the download count as it was when the call began; and a call is
\* cancelled only if a callback was supplied and returned true.
C6_Cancellation ==
    /\ hist.polledTrue =>
        /\ call.pc = "returned"
        /\ call.result = "cancelled"
        /\ call.error = "none"
        /\ downloadCount = hist.countAtCall
        /\ Len(hist.sleeps) = hist.attempts - 1
    /\ call.result = "cancelled" =>
        /\ call.op = "file"
        /\ call.callback
        /\ hist.polledTrue

\* C6 witness: the callback returned true during a retry, on the second tick
C6_Witness ==
    /\ hist.polledTrue
    /\ call.result = "cancelled"
    /\ hist.attempts >= 2
    /\ hist.ticks = 2
    /\ call.retryCount > 0

(***************************************************************************)
(* Properties of _downloadMapData.                                         *)
(***************************************************************************)
TimestampMarker == [dir |-> "", name |-> <<"timestamp.txt">>]
DataFormatMarker == [dir |-> "", name |-> <<"dataformat.txt">>]

\* C7: from the reset on and until the sanity checks have passed, also in a
\* run that was aborted, neither marker file exists.
C7_NoMarkerBeforeChecksPass ==
    mpc \in {"sophonts", "allegiances", "mains", "universe", "sector",
             "metadata", "sanity", "failed"}
        => /\ TimestampMarker \notin DOMAIN files
           /\ DataFormatMarker \notin DOMAIN files

\* C7 witness: a run that fetched everything was aborted by the zero-length check
C7_Witness ==
    /\ mpc = "failed"
    /\ fatal = "File is empty"
    /\ TimestampMarker \notin DOMAIN files
    /\ [dir |-> "", name |-> <<"mains.json">>] \in DOMAIN files

\* C8: when a coordinate mismatch of the metadata aborts the run, neither the
\* sector-data file nor the metadata file of that entry exists.
C8_NoFileBeforeCoordinateCheck ==
    (/\ mpc = "failed"
     /\ fatal \in {"Sector X position doesn't match universe X position",
                   "Sector Y position doesn't match universe Y position"})
        => /\ sectorFilePath \notin DOMAIN files
           /\ metadataFilePath \notin DOMAIN files

\* C9: when the sanity checks have passed, and so when the run returns, every
\* epoch directory holds at least 3 files and no file of the tree is empty.
C9_SanityOnReturn ==
    mpc \in {"checked", "timestamped", "done"}
        => /\ \A i \in 1..Len(_MilieuList) :
                Cardinality({p \in DOMAIN files : p.dir = _MilieuList[i]}) >= 3
           /\ \A p \in DOMAIN files : files[p].size > 0

\* C9 witness: the run returned and an epoch directory holds exactly 3 files
C9_Witness ==
    /\ mpc = "done"
    /\ Cardinality({p \in DOMAIN files : p.dir = "M0"}) = 3
    /\ Cardinality({p \in DOMAIN files : p.dir = "IW"}) = 5

\* the entries of the fetched index whose first names equal, ignoring case,
\* that of entry i
Group(i) ==
    {j \in 1..Len(fetchedSectors) :
        Lower(fetchedSectors[j].Names[1]) = Lower(fetchedSectors[i].Names[1])}

\* the tags of entry i have the token OTU between spaces
TaggedOTU(i) ==
    LET e == fetchedSectors[i]
        t == e.Tags
        n == Len(t)
    IN  /\ e.HasTags
        /\ \E k \in 1..n :
            /\ k + 2 <= n
            /\ t[k] = "O" /\ t[k + 1] = "T" /\ t[k + 2] = "U"
            /\ k = 1 \/ t[k - 1] = " "
            /\ k + 2 = n \/ t[k + 3] = " "

\* "<name> (<X>, <Y>)" of entry i of the fetched index
Renamed(i) ==
    LET e == fetchedSectors[i]
    IN  e.Names[1] \o <<" ", "(">> \o IntToStr(e.X) \o <<",", " ">>
                   \o IntToStr(e.Y) \o <<")">>

\* collision resolution of the epoch's index has completed
Resolved ==
    mpc \in {"resolved", "sector", "metadata", "sanity", "checked",
             "timestamped", "done"}

\* C10: after collision resolution, in every group of two or more entries of
\* which exactly one is tagged OTU, that entry has its name unchanged and its
\* name is no key of the resolution map, and every other entry of the group
\* is named "<name> (<X>, <Y>)", which the map sends to its original name.
C10_OneOfficialKeepsName ==
    Resolved =>
        \A i \in 1..Len(fetchedSectors) :
            (/\ Cardinality(Group(i)) >= 2
             /\ Cardinality({j \in Group(i) : TaggedOTU(j)}) = 1)
            => IF TaggedOTU(i)
               THEN /\ universeJson[i] = fetchedSectors[i]
                    /\ universeJson[i].Names[1] \notin DOMAIN nameMappings
               ELSE /\ universeJson[i].Names[1] = Renamed(i)
                    /\ Renamed(i) \in DOMAIN nameMappings
                    /\ nameMappings[Renamed(i)] = fetchedSectors[i].Names[1]

\* C10 witness: a resolved group of three entries, the second one tagged OTU
C10_Witness ==
    /\ mpc = "resolved"
    /\ Len(fetchedSectors) = 3
    /\ Group(1) = {1, 2, 3}
    /\ {j \in Group(1) : TaggedOTU(j)} = {2}
    /\ universeJson[3].Names[1] = Renamed(3)

\* collision resolution of the epoch's index has ended, with or without the
\* error of a disambiguated name in use
ResolutionOver ==
    \/ Resolved
    \/ mpc = "failed" /\ fatal = "Disambiguated name is already in use"

\* C11: after collision resolution, in every group of two or more entries of
\* which none or at least two are tagged OTU, every entry is named
\* "<name> (<X>, <Y>)" and mapped back to its original name; and an entry that
\* shares its lower-cased first name with no other entry is left as fetched,
\* its name being neither a key nor a value of the resolution map.
C11_AllRenamedOrAlone ==
    /\ Resolved =>
        \A i \in 1..Len(fetchedSectors) :
            (/\ Cardinality(Group(i)) >= 2
             /\ Cardinality({j \in Group(i) : TaggedOTU(j)}) # 1)
            => /\ universeJson[i].Names = <<Renamed(i)>> \o fetchedSectors[i].Names
               /\ Renamed(i) \in DOMAIN nameMappings
               /\ nameMappings[Renamed(i)] = fetchedSectors[i].Names[1]
    /\ ResolutionOver =>
        \A i \in 1..Len(fetchedSectors) :
            Group(i) = {i}
            => /\ universeJson[i] = fetchedSectors[i]
               /\ \A key \in DOMAIN nameMappings :
                    /\ key # fetchedSectors[i].Names[1]
                    /\ nameMappings[key] # fetchedSectors[i].Names[1]

\* C11 witness: a resolved index with a group of two entries both tagged OTU,
\* both renamed, next to an entry of its own name that was left alone
C11_Witness ==
    /\ mpc = "resolved"
    /\ Len(fetchedSectors) = 3
    /\ Group(1) = {1, 2}
    /\ {j \in Group(1) : TaggedOTU(j)} = {1, 2}
    /\ universeJson[1].Names[1] = Renamed(1)
    /\ universeJson[2].Names[1] = Renamed(2)
    /\ Group(3) = {3}
    /\ universeJson[3] = fetchedSectors[3]

\* entry i of the fetched index is one that collision resolution renames
ToRename(i) ==
    /\ Cardinality(Group(i)) >= 2
    /\ ~(TaggedOTU(i) /\ Cardinality({j \in Group(i) : TaggedOTU(j)}) = 1)

\* the name "<name> (<X>, <Y>)" of an entry to rename equals, ignoring case,
\* a first name of the fetched index
NameClash ==
    \E i, j \in 1..Len(fetchedSectors) :
        /\ ToRename(i)
        /\ Lower(Renamed(i)) = Lower(fetchedSectors[j].Names[1])

\* the entries of the fetched index have pairwise distinct coordinates
DistinctCoordinates ==
    \A i, j \in 1..Len(fetchedSectors) :
        i # j => <<fetchedSectors[i].X, fetchedSectors[i].Y>>
                 # <<fetchedSectors[j].X, fetchedSectors[j].Y>>

\* a disambiguated name in use aborts the run before the index file of the
\* epoch is written
ClashAborts ==
    mpc # "resolve" /\ NameClash
        => /\ mpc = "failed"
           /\ fatal = "Disambiguated name is already in use"
           /\ universeFilePath \notin DOMAIN files

\* every key of the resolution map is the first name of one entry only and
\* equals, ignoring case, no first name of another entry, before or after
\* the resolution
KeysNotInUse ==
    \A key \in DOMAIN nameMappings :
        /\ Cardinality({i \in 1..Len(universeJson) :
                          Lower(universeJson[i].Names[1]) = Lower(key)}) = 1
        /\ \A j \in 1..Len(fetchedSectors) :
              Lower(fetchedSectors[j].Names[1]) # Lower(key)

Without(lines, k) == SubSeq(lines, 1, k - 1) \o SubSeq(lines, k + 1, Len(lines))

\* the positions of the lines of the text that match the timestamp pattern
MatchingLines(text) ==
    LET lines == splitlines(text)
    IN  {k \in 1..Len(lines) : _SectorTimestampPattern(lines[k])}

\* C13: when the run hands a sector-data text to _removeTimestampFromSector
\* and exactly one of its lines matches the timestamp pattern, the result is
\* the other lines in their order, each ended by "\n", and it is what the
\* sector file of the entry then holds; with no such line or with several
\* there is no result, the run fails and the step writes no file.
C13_ExactlyOneTimestampLine ==
    [][ (mpc = "sector" /\ call.pc = "returned")
        => LET lines == splitlines(arg')
               matching == MatchingLines(arg')
           IN  IF Cardinality(matching) = 1
               THEN /\ ret'.ok
                    /\ ret'.data =
                         JoinLines(Without(lines, CHOOSE k \in matching : TRUE),
                                   <<"\n">>, <<"\n">>)
                    /\ mpc' = "metadata"
                    /\ sectorFilePath \in DOMAIN files'
                    /\ files'[sectorFilePath].data = ret'.data
               ELSE /\ ~ret'.ok
                    /\ mpc' = "failed"
                    /\ fatal' = "Failed to remove timestamp from sector file"
                    /\ files' = files ]_vars

\* C13 witness: of three lines ended by "\r\n" the second one was removed, and
\* the first and the third one were written to the sector file
C13_Witness ==
    /\ mpc = "metadata"
    /\ ret.ok
    /\ splitlines(arg) = <<WorldLine, TimestampTight, TimestampIndented>>
    /\ arg[Len(WorldLine) + 1] = "\r"
    /\ ret.data = WorldLine \o <<"\n">> \o TimestampIndented \o <<"\n">>
    /\ files[sectorFilePath].data = ret.data

\* the characters no file name may hold on one of the three systems
IllegalCharacters == {"/", "<", ">", ":", "\"", "\\", "|", "?", "*"}

IsHexDigit(char) == \E i \in 1..16 : HexDigits[i] = char
HexValue(char) == (CHOOSE i \in 1..16 : HexDigits[i] = char) - 1

\* the characters that have the code point `code`, among the ones of a name
CharactersOf(code) == {char \in IllegalCharacters \cup {"%"} : Ord(char) = code}

\* the name read back from an escaped name: every '%' that is followed by two
\* hexadecimal digits is replaced, with them, by the character of that code
RECURSIVE DecodeFileName(_)
DecodeFileName(escaped) ==
    IF escaped = <<>> THEN <<>>
    ELSE IF /\ escaped[1] = "%"
            /\ Len(escaped) >= 3
            /\ IsHexDigit(escaped[2])
            /\ IsHexDigit(escaped[3])
            /\ CharactersOf(16 * HexValue(escaped[2]) + HexValue(escaped[3])) # {}
    THEN <<CHOOSE char \in CharactersOf(16 * HexValue(escaped[2])
                                           + HexValue(escaped[3])) : TRUE>>
         \o DecodeFileName(SubSeq(escaped, 4, Len(escaped)))
    ELSE <<escaped[1]>> \o DecodeFileName(Tail(escaped))

\* C14: the escaped form of a name decodes to the name (so that two names
\* with the same escaped form are the same name), holds none of the illegal
\* characters, and holds '%' only in front of the two hexadecimal digits of
\* an escape.
C14_EncodeDecodes ==
    mpc = "encoded"
        => /\ DecodeFileName(ret) = arg
           /\ \A i \in 1..Len(ret) :
                /\ ret[i] \notin IllegalCharacters
                /\ ret[i] = "%"
                    => /\ i + 2 <= Len(ret)
                       /\ IsHexDigit(ret[i + 1])
                       /\ IsHexDigit(ret[i + 2])
                       /\ CharactersOf(16 * HexValue(ret[i + 1])
                                       + HexValue(ret[i + 2])) # {}

\* C14 witness: the name "%2f", which reads as an escape itself, was escaped
\* to "%252f"
C14_Witness ==
    /\ mpc = "encoded"
    /\ arg = <<"%", "2", "f">>
    /\ ret = <<"%", "2", "5", "2", "f">>
    /\ DecodeFileName(ret) = arg

(***************************************************************************)
(* Further properties of _downloadMapData.                                 *)
(***************************************************************************)
\* C15: when the run checks the metadata of an index entry that collision
\* resolution renamed, it fails unless the first name of the metadata is
\* the name the entry had in the index as fetched, and the metadata it
\* writes has the entry's new name in front of the names received; for an
\* entry that was not renamed it fails unless the first name of the metadata
\* is the entry's first name, and it writes the names as received.  A run
\* that fails here writes nothing.
C15_MetadataNames ==
    [][ (mpc = "metadata" /\ call.pc = "returned")
        => LET name == universeJson[sectorIdx].Names[1]
               original == fetchedSectors[sectorIdx].Names[1]
               names == arg'.Names
           IN  /\ (names = <<>> \/ names[1] # original)
                    => mpc' = "failed" /\ files' = files
               /\ mpc' # "failed"
                    => /\ metadataFilePath \in DOMAIN files'
                       /\ files'[metadataFilePath].data.Names =
                            IF name # original THEN <<name, original>> \o Tail(names)
                            ELSE names
                       /\ name # original => nameMappings[name] = original
                       /\ name = original => name \notin DOMAIN nameMappings ]_vars

\* C15 witness: the run returned after it wrote the metadata of a renamed
\* entry, "a (-1, 1)" followed by the names received, and the metadata of
\* the other entry of that index with the names as received
C15_Witness ==
    /\ mpc = "done"
    /\ \E p, q \in DOMAIN files :
        /\ p.dir = q.dir
        /\ files[p].kind = "xml"
        /\ files[q].kind = "xml"
        /\ files[p].data.Names =
             <<DisambiguatedName(NameLowerA, -1, 1), NameLowerA, NameAlternate>>
        /\ files[q].data.Names = <<NameA, NameAlternate>>

\* the index that the run wrote for the epoch
EpochIndex(dir) == files[[dir |-> dir, name |-> <<"universe.json">>]].data

\* the sector-data and metadata files named from the escaped first names of
\* the entries of the epoch's index
EntryFiles(dir) ==
    LET index == EpochIndex(dir)
    IN  {[dir |-> dir, name |-> _encodeFileName(index[k].Names[1]) \o <<ext>>] :
            k \in 1..Len(index), ext \in {".sec", ".xml"}}

\* the entries of the index have pairwise distinct coordinates
CoordinatesDistinct(index) ==
    \A i, j \in 1..Len(index) :
        i # j => <<index[i].X, index[i].Y>> # <<index[j].X, index[j].Y>>

\* the files of the epoch's directory are its index file and the files of
\* its entries
EpochFilesNamed(dir) ==
    /\ [dir |-> dir, name |-> <<"universe.json">>] \in DOMAIN files
    /\ {p \in DOMAIN files : p.dir = dir}
         = {[dir |-> dir, name |-> <<"universe.json">>]} \cup EntryFiles(dir)
    /\ \A p \in EntryFiles(dir) :
         files[p].kind = IF p.name[Len(p.name)] = ".sec" THEN "sec" ELSE "xml"

EpochFileCount(dir) == Cardinality({p \in DOMAIN files : p.dir = dir})

Violation ==
    \/ /\ mpc = "universe"
       /\ ~arg'.HasSectors \/ NameClash'
    \/ /\ mpc = "sector"
       /\ Cardinality(MatchingLines(arg')) # 1
    \/ /\ mpc = "metadata"
       /\ \/ arg'.Names = <<>>
          \/ arg'.X = <<>>
          \/ arg'.Y = <<>>
          \/ arg'.Names[1] # fetchedSectors[sectorIdx].Names[1]
          \/ arg'.X[1] # universeJson[sectorIdx].X
          \/ arg'.Y[1] # universeJson[sectorIdx].Y
    \/ /\ mpc = "sanity"
       /\ \/ \E i \in 1..Len(_MilieuList) : EpochFileCount(_MilieuList[i]) < 3
          \/ \E p \in DOMAIN files : files[p].size <= 0

\* C17: the step of the run that meets a consistency violation, or an error
\* the Downloader raised, ends the run as failed; the step that fails
\* writes no file and issues no request; and a failed run takes no further
\* step: no request, no file, no later entry or epoch.
C17_AbortsAtOnce ==
    [][ /\ (mpc \in {"universe", "sector", "metadata"} /\ call.pc = "returned"
            /\ Violation) => mpc' = "failed"
        /\ (mpc = "sanity" /\ Violation) => mpc' = "failed"
        /\ (mpc # "off" /\ call.pc = "raised") => mpc' = "failed"
        /\ mpc' = "failed" => /\ files' = files
                              /\ calls' = calls
                              /\ <<milieuIdx', sectorIdx'>> = <<milieuIdx, sectorIdx>>
        /\ mpc = "failed" => UNCHANGED vars ]_vars

\* C17 witness: a name mismatch in the metadata of the first of two entries
\* of the first epoch ended the run: the second entry has no file and the
\* second epoch has no directory
C17_Witness ==
    /\ mpc = "failed"
    /\ fatal = "First name doesn't match canonical name"
    /\ milieuIdx = 1
    /\ sectorIdx = 1
    /\ Len(universeJson) = 2
    /\ EpochFileCount("IW") = 2
    /\ EpochFileCount("M0") = 0

\* C18: when collision resolution completes for an index whose entries have
\* pairwise distinct coordinates, the first names of its entries are pairwise
\* distinct ignoring case, and so are the escaped names their files are
\* named from: no two entries have the same sector-data or metadata file.
C18_NamesDistinct ==
    (Resolved /\ DistinctCoordinates)
        => \A i, j \in 1..Len(universeJson) :
             i # j
             => /\ Lower(universeJson[i].Names[1]) # Lower(universeJson[j].Names[1])
                /\ Lower(_encodeFileName(universeJson[i].Names[1]))
                     # Lower(_encodeFileName(universeJson[j].Names[1]))

\* C18 witness: a resolved index of three entries named "A", "a" and "A" at
\* different coordinates, none of them tagged OTU, all renamed
C18_Witness ==
    /\ mpc = "resolved"
    /\ Len(fetchedSectors) = 3
    /\ DistinctCoordinates
    /\ Group(1) = {1, 2, 3}
    /\ \A i \in 1..3 : universeJson[i].Names[1] = Renamed(i)
    /\ Cardinality({Lower(universeJson[i].Names[1]) : i \in 1..3}) = 3

\* the format-version marker exists only with the timestamp marker; and from
\* the reset on, the timestamp marker exists only once the checks have passed
\* and holds the start time of the run, which is earlier than the time of its
\* last request, and the format-version marker exists only when the run has
\* returned
MarkersInOrder ==
    /\ DataFormatMarker \in DOMAIN files => TimestampMarker \in DOMAIN files
    /\ (mpc # "start" /\ TimestampMarker \in DOMAIN files)
        => /\ mpc \in {"timestamped", "done"}
           /\ files[TimestampMarker].data = <<startTime>>
           /\ startTime < calls
    /\ (mpc # "start" /\ DataFormatMarker \in DOMAIN files) => mpc = "done"

\* C19: in every state of a run the format-version marker exists only if the
\* timestamp marker exists; the timestamp marker holds the start time of the
\* run and is written by the step before the one that writes the
\* format-version marker, after which the run writes no file.
C19_MarkerOrder ==
    [][ /\ MarkersInOrder
        /\ MarkersInOrder'
        /\ (mpc # "start" /\ DataFormatMarker \notin DOMAIN files
            /\ DataFormatMarker \in DOMAIN files')
             => /\ mpc = "timestamped"
                /\ TimestampMarker \in DOMAIN files
                /\ DOMAIN files' = DOMAIN files \cup {DataFormatMarker}
        /\ mpc = "done" => files' = files ]_vars

\* C19 witness: the timestamp marker holds the time at which the run had
\* issued no request, and the format-version marker is not yet written
C19_Witness ==
    /\ mpc = "timestamped"
    /\ TimestampMarker \in DOMAIN files
    /\ files[TimestampMarker].data = <<0>>
    /\ calls > 0
    /\ DataFormatMarker \notin DOMAIN files

\* the epochs for which the run has written an index without entries
EmptyEpochs ==
    {i \in 1..Len(_MilieuList) :
        /\ mpc # "start"
        /\ [dir |-> _MilieuList[i], name |-> <<"universe.json">>] \in DOMAIN files
        /\ EpochIndex(_MilieuList[i]) = <<>>}

\* a run with an empty index has not passed the checks, has written no marker
\* and has only the index file in the directory of that epoch
NotCommitted ==
    EmptyEpochs # {}
        => /\ mpc \notin {"checked", "timestamped", "done"}
           /\ TimestampMarker \notin DOMAIN files
           /\ DataFormatMarker \notin DOMAIN files
           /\ \A i \in EmptyEpochs : EpochFileCount(_MilieuList[i]) = 1

\* everything of every epoch has been fetched and written
AllFetched ==
    /\ \A name \in {<<"sophonts.json">>, <<"allegiances.json">>, <<"mains.json">>} :
         [dir |-> "", name |-> name] \in DOMAIN files
    /\ \A i \in 1..Len(_MilieuList) : EpochFilesNamed(_MilieuList[i])

\* C20: a run that received an index with an empty Sectors collection is not
\* ended by it: it writes the index and goes on with the next epoch or with
\* the checks; it never passes the checks and never has a marker file; and
\* when it comes to the checks, with everything of all epochs fetched, the
\* minimum-file-count check ends it.
C20_EmptyIndexNeverCommits ==
    [][ /\ NotCommitted
        /\ NotCommitted'
        /\ (mpc = "universe" /\ call.pc = "returned"
            /\ arg'.HasSectors /\ arg'.Sectors = <<>>)
             => /\ milieuIdx \in EmptyEpochs'
                /\ IF milieuIdx < Len(_MilieuList)
                   THEN /\ mpc' = "universe"
                        /\ milieuIdx' = milieuIdx + 1
                        /\ calls' = calls + 1
                   ELSE mpc' = "sanity"
        /\ (mpc = "sanity" /\ EmptyEpochs # {})
             => /\ AllFetched
                /\ mpc' = "failed"
                /\ fatal' = "Milieu directory only contains few files"
                /\ files' = files ]_vars

\* C20 witness: the index of the first epoch was empty, the second epoch was
\* fetched with its only entry, and the file-count check ended the run
C20_Witness ==
    /\ mpc = "failed"
    /\ fatal = "Milieu directory only contains few files"
    /\ 1 \in EmptyEpochs
    /\ EpochFileCount("IW") = 1
    /\ EpochFileCount("M0") = 3
    /\ TimestampMarker \notin DOMAIN files

(***************************************************************************)
(* Retry state of the Downloader across calls.                             *)
(***************************************************************************)
\* a call of downloadToFile or downloadToBuffer begins with this step
CallBegins == calls' = calls + 1

\* the running call sleeps for the first time with this step
FirstSleep == hist.sleeps = <<>> /\ hist'.sleeps # <<>>

\* C21: whatever the call before went through (retries that doubled its
\* delay, a raised error, a cancellation, a completed download), a call of
\* downloadToFile or downloadToBuffer begins with a retry delay of 5 seconds,
\* with the retry budget it was given and with no attempt and no sleep made,
\* and its first sleep lasts 5 seconds and takes one off that budget; beginning
\* a call leaves the download count alone, and no step changes the count other
\* than by adding one to it.
C21_RetryStateLocal ==
    [][/\ CallBegins =>
            /\ call'.retryDelay = 5
            /\ call'.retryCount = hist'.budget
            /\ hist'.attempts = 0
            /\ hist'.sleeps = <<>>
            /\ call'.pc = "try"
            /\ call'.result = "none"
            /\ call'.error = "none"
            /\ downloadCount' = downloadCount
       /\ FirstSleep =>
            /\ hist'.sleeps = <<5>>
            /\ call'.retryDelay = 10
            /\ call'.retryCount = hist.budget - 1
       /\ downloadCount' \in {downloadCount, downloadCount + 1}]_vars

\* C21 witness: after a call that used up a budget of three retries, ending
\* with a delay of 40 seconds and a raised HTTP error, the next call on the
\* same Downloader, given a budget of one, slept 5 seconds before its retry
C21_Witness ==
    /\ calls = 2
    /\ hist.before.retryDelay = 40
    /\ hist.before.error = "http"
    /\ hist.budget = 1
    /\ hist.sleeps = <<5>>
    /\ call.retryDelay = 10
    /\ call.retryCount = 0
    /\ downloadCount = 0

====
